---- MODULE Spec2Model ----
(***************************************************************************)
(* Model of memgpt's credential store (memgpt/credentials.py) and of the   *)
(* record constructors (memgpt/data_types.py).                             *)
(*                                                                         *)
(* In the credential store a Python str is a sequence of one-character     *)
(* strings, so that str.split(",") is computed and not assumed, and None   *)
(* is the one-element sequence <<"None">>, which is no str because "None"  *)
(* is no character.  In the record constructors a Python value is a record *)
(* [type, val] and an Optional argument of LLMConfig is a set of at most   *)
(* one element.                                                            *)
(***************************************************************************)
EXTENDS Naturals, Sequences, FiniteSets, TLC

VARIABLES
    cred,        \* the in-memory MemGPTCredentials instance
    env,         \* os.getenv("MEMGPT_CREDENTIALS_PATH"), "" when unset
    fs,          \* the file system: path -> [kind, config]
    dirs,        \* the directories that exist
    loaded,      \* <<>> or <<store>>: what the last load() returned
    op,          \* the last operation: [name, prop]
    ret,         \* what the last operation returned
    exc,         \* the exception the last operation raised, "" if none
    reads,       \* how often each key field has been read
    issued,      \* the last key issued: [prop, idx], idx its place in the pool
    saved_fresh, \* paths whose file save() of cred created from nothing
    records,     \* the records constructed so far, in order
    uuid_next,   \* the number of uuid4() values drawn so far
    args,        \* the arguments of the last constructor call
    threads      \* each thread's place in __getattribute__ and its locals

vars == <<cred, env, fs, dirs, loaded, op, ret, exc, reads, issued, saved_fresh,
          records, uuid_next, args, threads>>

credVars == <<cred, env, fs, dirs, loaded, reads, issued, saved_fresh>>
typeVars == <<records, uuid_next, args>>

----------------------------------------------------------------------------
(* Bounds of the model *)

MaxKeys == 3
MaxReads == 3
MaxRecords == 3

----------------------------------------------------------------------------
(* Values *)

None == <<"None">>

BearerToken == <<"b", "e", "a", "r", "e", "r", "_", "t", "o", "k", "e", "n">>
ApiKey == <<"a", "p", "i", "_", "k", "e", "y">>

SUPPORTED_AUTH_TYPES == {BearerToken, ApiKey}
KEY_NAMES == {"openai_key", "azure_key", "openllm_key"}

MEMGPT_DIR == "~/.memgpt"
OtherDir == "/srv/secrets"
DefaultPath == "~/.memgpt/credentials"
OtherPath == "/srv/secrets/credentials"
Paths == {DefaultPath, OtherPath}

Parent(path) == IF path = DefaultPath THEN MEMGPT_DIR ELSE OtherDir

\* The persisted fields, as save() writes them: <<section, key, attribute>>.
SaveEntries ==
    << <<"openai", "auth_type", "openai_auth_type">>,
       <<"openai", "key", "openai_key">>,
       <<"azure", "auth_type", "azure_auth_type">>,
       <<"azure", "key", "azure_key">>,
       <<"azure", "version", "azure_version">>,
       <<"azure", "endpoint", "azure_endpoint">>,
       <<"azure", "deployment", "azure_deployment">>,
       <<"azure", "embedding_version", "azure_embedding_version">>,
       <<"azure", "embedding_endpoint", "azure_embedding_endpoint">>,
       <<"azure", "embedding_deployment", "azure_embedding_deployment">>,
       <<"openllm", "auth_type", "openllm_auth_type">>,
       <<"openllm", "key", "openllm_key">> >>

PersistedFields == {SaveEntries[i][3] : i \in 1..Len(SaveEntries)}

\* The dataclass MemGPTCredentials with its default field values.
MemGPTCredentials ==
    [_key_num |-> 0,
     credentials_path |-> DefaultPath,
     openai_auth_type |-> BearerToken,
     openai_key |-> None,
     azure_auth_type |-> ApiKey,
     azure_key |-> None,
     azure_version |-> None,
     azure_endpoint |-> None,
     azure_deployment |-> None,
     azure_embedding_version |-> None,
     azure_embedding_endpoint |-> None,
     azure_embedding_deployment |-> None,
     openllm_auth_type |-> None,
     openllm_key |-> None]

\* cls(**overrides): the dataclass constructor.
NewCredentials(overrides) ==
    [f \in DOMAIN MemGPTCredentials |->
        IF f \in DOMAIN overrides THEN overrides[f] ELSE MemGPTCredentials[f]]

----------------------------------------------------------------------------
(* Key rotation: MemGPTCredentials.__getattribute__ *)

HasComma(s) == \E i \in 1..Len(s) : s[i] = ","
FirstComma(s) == CHOOSE i \in 1..Len(s) : s[i] = "," /\ \A j \in 1..(i - 1) : s[j] # ","

\* value.split(","): "" gives [""], "A,B" gives ["A", "B"].
RECURSIVE Split(_)
Split(s) ==
    IF ~HasComma(s) THEN <<s>>
    ELSE <<SubSeq(s, 1, FirstComma(s) - 1)>>
             \o Split(SubSeq(s, FirstComma(s) + 1, Len(s)))

\* A rotation that never advances: every read issues keys[0].
NextKeyNumNoAdvance(number, n) == IF number + 1 < n THEN number ELSE 0

\* A rotation that wraps one read too late: number can reach len(keys).
NextKeyNumWrapsLate(number, n) == IF number + 1 <= n THEN number + 1 ELSE 0

\* number = number + 1 if number + 1 < len(keys) else 0
NextKeyNum(number, n) == IF number + 1 < n THEN number + 1 ELSE 0

\* A rotation without the None check: None.split raises AttributeError.
GetAttributeNoNoneCheck(self, prop) ==
    IF prop \notin KEY_NAMES THEN [ret |-> self[prop], self |-> self, exc |-> ""]
    ELSE IF self[prop] = None THEN [ret |-> None, self |-> self, exc |-> "AttributeError"]
    ELSE LET keys == Split(self[prop])
             number == NextKeyNum(self["_key_num"], Len(keys))
         IN  [ret |-> IF Len(keys) # 0 THEN keys[number + 1] ELSE None,
              self |-> [self EXCEPT !["_key_num"] = number], exc |-> ""]

\* A rotation that computes the next number and does not store it.
GetAttributeNoWriteBack(self, prop) ==
    IF prop \notin KEY_NAMES THEN [ret |-> self[prop], self |-> self, exc |-> ""]
    ELSE IF self[prop] = None THEN [ret |-> None, self |-> self, exc |-> ""]
    ELSE LET keys == Split(self[prop])
             number == NextKeyNum(self["_key_num"], Len(keys))
         IN  [ret |-> IF Len(keys) # 0 THEN keys[number + 1] ELSE None,
              self |-> self, exc |-> ""]

\* self.<prop>: the value returned, the instance afterwards and the exception
\* raised ("" for none).
GetAttribute(self, prop) ==
    IF prop \notin KEY_NAMES THEN [ret |-> self[prop], self |-> self, exc |-> ""]
    ELSE IF self[prop] = None THEN [ret |-> None, self |-> self, exc |-> ""]
    ELSE LET keys == Split(self[prop])
             number == NextKeyNum(self["_key_num"], Len(keys))
         IN  IF Len(keys) # 0 /\ number >= Len(keys)
             THEN [ret |-> None, self |-> [self EXCEPT !["_key_num"] = number],
                   exc |-> "IndexError"]
             ELSE [ret |-> IF Len(keys) # 0 THEN keys[number + 1] ELSE None,
                   self |-> [self EXCEPT !["_key_num"] = number], exc |-> ""]

\* self._get_keys(key_name): the raw field, no rotation.
_get_keys(self, key_name) ==
    IF key_name \in KEY_NAMES THEN self[key_name] ELSE None

----------------------------------------------------------------------------
(* Field codec: memgpt.config.get_field / set_field over a ConfigParser,   *)
(* a function section -> (key -> value).                                   *)

EmptyConfig == [s \in {} |-> [k \in {} |-> None]]

set_field(config, section, field, value) ==
    IF value = None THEN config
    ELSE LET c1 == IF section \in DOMAIN config THEN config
                   ELSE config @@ (section :> [k \in {} |-> None])
         IN  [c1 EXCEPT ![section] = (field :> value) @@ c1[section]]

get_field(config, section, field) ==
    IF section \notin DOMAIN config THEN None
    ELSE IF field \notin DOMAIN config[section] THEN None
    ELSE IF config[section][field] = <<>> THEN None
    ELSE config[section][field]

----------------------------------------------------------------------------
(* save() *)

\* A save() that reads the key fields like any caller does, rotating them.
SaveValueRotated(self, prop) == GetAttribute(self, prop)

\* How save() obtains the value it writes for one attribute: a key field
\* through _get_keys, any other field through plain attribute access.
SaveValue(self, prop) ==
    IF prop \in KEY_NAMES
    THEN [ret |-> _get_keys(self, prop), self |-> self, exc |-> ""]
    ELSE GetAttribute(self, prop)

\* The set_field calls of save(), entries i..12, threading the instance.
RECURSIVE SaveFields(_, _, _)
SaveFields(self, config, i) ==
    IF i > Len(SaveEntries) THEN [config |-> config, self |-> self]
    ELSE LET e == SaveEntries[i]
             v == SaveValue(self, e[3])
         IN  SaveFields(v.self, set_field(config, e[1], e[2], v.ret), i + 1)

\* open(path, "w") and config.write(f).
WriteFile(files, folders, path, config) ==
    IF files[path].kind = "dir" THEN [fs |-> files, exc |-> "IsADirectoryError"]
    ELSE IF Parent(path) \notin folders THEN [fs |-> files, exc |-> "FileNotFoundError"]
    ELSE [fs |-> [files EXCEPT ![path] = [kind |-> "file", config |-> config]],
          exc |-> ""]

\* self.save(): the instance, the file system and the exception afterwards.
save(self, files, folders) ==
    LET built == SaveFields(self, EmptyConfig, 1)
        folders2 == folders \cup {MEMGPT_DIR}
        path == GetAttribute(built.self, "credentials_path")
        w == WriteFile(files, folders2, path.ret, built.config)
    IN  [self |-> path.self, fs |-> w.fs, dirs |-> folders2, exc |-> w.exc]

----------------------------------------------------------------------------
(* load() and exists() *)

\* credentials_path = os.getenv(...) or MemGPTCredentials.credentials_path
ResolvePath(e) == IF e = "" THEN MemGPTCredentials["credentials_path"] ELSE e

\* os.path.exists(path)
PathExists(files, path) == files[path].kind # "absent"

\* config.read(path): a path that cannot be opened as a file is skipped.
ReadConfig(files, path) ==
    IF files[path].kind = "file" THEN files[path].config ELSE EmptyConfig

\* The fields load() reads: <<attribute, section, key>>.
LoadEntries ==
    << <<"openai_auth_type", "openai", "auth_type">>,
       <<"openai_key", "openai", "key">>,
       <<"azure_auth_type", "azure", "auth_type">>,
       <<"azure_key", "azure", "key">>,
       <<"azure_version", "azure", "version">>,
       <<"azure_endpoint", "azure", "endpoint">>,
       <<"azure_deployment", "azure", "deployment">>,
       <<"azure_embedding_version", "azure", "embedding_version">>,
       <<"azure_embedding_endpoint", "azure", "embedding_endpoint">>,
       <<"azure_embedding_deployment", "azure", "embedding_deployment">>,
       <<"openllm_auth_type", "openllm", "auth_type">>,
       <<"openllm_key", "openllm", "key">> >>

\* A config_dict that keeps the entries that are None.
ConfigDictUnfiltered(config, path) ==
    LET idx(f) == CHOOSE i \in 1..Len(LoadEntries) : LoadEntries[i][1] = f
        got == [f \in {LoadEntries[i][1] : i \in 1..Len(LoadEntries)} |->
                   get_field(config, LoadEntries[idx(f)][2], LoadEntries[idx(f)][3])]
    IN  [f \in DOMAIN got \cup {"credentials_path"} |->
            IF f = "credentials_path" THEN path ELSE got[f]]

\* config_dict of load(), with the entries that are None dropped.
ConfigDict(config, path) ==
    LET idx(f) == CHOOSE i \in 1..Len(LoadEntries) : LoadEntries[i][1] = f
        got == [f \in {LoadEntries[i][1] : i \in 1..Len(LoadEntries)} |->
                   get_field(config, LoadEntries[idx(f)][2], LoadEntries[idx(f)][3])]
        kept == {f \in DOMAIN got : got[f] # None}
    IN  [f \in kept \cup {"credentials_path"} |->
            IF f = "credentials_path" THEN path ELSE got[f]]

\* A load() that also saves the store it read from an existing file.
loadAlwaysSaves(e, files, folders) ==
    LET credentials_path == ResolvePath(e)
        config == IF PathExists(files, credentials_path)
                  THEN NewCredentials(ConfigDict(ReadConfig(files, credentials_path),
                                                 credentials_path))
                  ELSE NewCredentials([f \in {"credentials_path"} |-> credentials_path])
        s == save(config, files, folders)
    IN  [store |-> IF s.exc = "" THEN <<s.self>> ELSE <<>>,
         fs |-> s.fs, dirs |-> s.dirs, exc |-> s.exc]

\* A load() that builds the default store and does not save it.
loadNoSave(e, files, folders) ==
    LET credentials_path == ResolvePath(e)
    IN  IF PathExists(files, credentials_path)
        THEN [store |-> <<NewCredentials(ConfigDict(ReadConfig(files, credentials_path),
                                                   credentials_path))>>,
              fs |-> files, dirs |-> folders, exc |-> ""]
        ELSE [store |-> <<NewCredentials([f \in {"credentials_path"} |-> credentials_path])>>,
              fs |-> files, dirs |-> folders, exc |-> ""]

\* MemGPTCredentials.load(): <<store>> returned (<<>> if it raised), the file
\* system afterwards and the exception.
load(e, files, folders) ==
    LET credentials_path == ResolvePath(e)
    IN  IF PathExists(files, credentials_path)
        THEN [store |-> <<NewCredentials(ConfigDict(ReadConfig(files, credentials_path),
                                                   credentials_path))>>,
              fs |-> files, dirs |-> folders, exc |-> ""]
        ELSE LET config == NewCredentials([f \in {"credentials_path"} |-> credentials_path])
                 s == save(config, files, folders)
             IN  [store |-> IF s.exc = "" THEN <<s.self>> ELSE <<>>,
                  fs |-> s.fs, dirs |-> s.dirs, exc |-> s.exc]

\* MemGPTCredentials.exists()
exists(e, files) ==
    LET credentials_path == ResolvePath(e)
    IN  IF files[credentials_path].kind = "dir"
        THEN [ret |-> FALSE, exc |-> "AssertionError"]
        ELSE [ret |-> PathExists(files, credentials_path), exc |-> ""]

----------------------------------------------------------------------------
(* The stores, environments and file systems the model starts from *)

KeyLetters ==
    [openai_key |-> <<"A", "B", "C", "D", "E">>,
     azure_key |-> <<"F", "G", "H", "I", "J">>,
     openllm_key |-> <<"K", "L", "M", "N", "O">>]

\* The pool of the first n keys of a key field, comma-separated.
RECURSIVE Pool(_, _)
Pool(f, n) ==
    IF n = 1 THEN <<KeyLetters[f][1]>>
    ELSE Pool(f, n - 1) \o <<",", KeyLetters[f][n]>>

KeyPools(f) == {None} \cup {Pool(f, n) : n \in 1..MaxKeys}

\* Stores that differ in their key pools only.
RotationStores ==
    {NewCredentials([openai_key |-> a, azure_key |-> b, openllm_key |-> c]) :
        a \in KeyPools("openai_key"), b \in KeyPools("azure_key"),
        c \in KeyPools("openllm_key")}

\* Stores that differ in which fields are set, empty or None.
PersistenceOverrides ==
    { [openai_key |-> Pool("openai_key", 2)],
      [openai_auth_type |-> ApiKey, openai_key |-> Pool("openai_key", 2),
       azure_auth_type |-> BearerToken, azure_key |-> Pool("azure_key", 1),
       azure_version |-> <<"v", "1">>, azure_endpoint |-> <<"e">>,
       azure_deployment |-> <<"d">>, azure_embedding_version |-> <<"v", "2">>,
       azure_embedding_endpoint |-> <<"f">>, azure_embedding_deployment |-> <<"g">>,
       openllm_auth_type |-> BearerToken, openllm_key |-> Pool("openllm_key", 1)],
      [openai_key |-> <<>>, azure_version |-> <<>>, openllm_auth_type |-> <<>>,
       azure_endpoint |-> <<"e">>],
      [openai_auth_type |-> None, azure_auth_type |-> None,
       openllm_key |-> Pool("openllm_key", 1)] }

PersistenceStores ==
    {NewCredentials(o @@ [credentials_path |-> p]) :
        o \in PersistenceOverrides, p \in Paths}

Absent == [kind |-> "absent", config |-> EmptyConfig]
Directory == [kind |-> "dir", config |-> EmptyConfig]
File(config) == [kind |-> "file", config |-> config]

\* A credentials file written by hand: one key pool, one empty value.
SampleConfig ==
    [openai |-> [key |-> Pool("openai_key", 2), auth_type |-> <<>>],
     azure |-> [endpoint |-> <<"e">>]]

\* What may be at a path whose parent directory exists.
InitialFiles == {Absent, Directory, File(SampleConfig)}

RotationInit ==
    /\ cred \in RotationStores
    /\ env = ""
    /\ dirs = {MEMGPT_DIR}
    /\ fs = [p \in Paths |-> Absent]

PersistenceInit ==
    /\ cred \in PersistenceStores
    /\ env \in {"", OtherPath}
    /\ dirs \in SUBSET {MEMGPT_DIR, OtherDir}
    /\ fs \in [Paths -> InitialFiles]
    /\ \A p \in Paths : Parent(p) \notin dirs => fs[p] = Absent

NoOp == [name |-> "", prop |-> ""]

\* The threads that share one store, and a thread that has not called yet.
Threads == {"T1", "T2"}

IdleThread ==
    [pc |-> "idle", prop |-> "", keys |-> <<>>, number |-> 0, seen |-> 0,
     stale |-> FALSE, ret |-> None]

InitCredentials ==
    /\ RotationInit \/ PersistenceInit
    /\ loaded = <<>>
    /\ reads = [f \in KEY_NAMES |-> 0]
    /\ issued = [prop |-> "", idx |-> 0]
    /\ saved_fresh = {}

PyNone == [type |-> "NoneType", val |-> ""]

InitTypes ==
    /\ records = <<>>
    /\ uuid_next = 0
    /\ args = [id |-> PyNone, given |-> FALSE]

Init ==
    /\ InitCredentials
    /\ InitTypes
    /\ op = NoOp
    /\ ret = None
    /\ exc = ""
    /\ threads = [t \in Threads |-> IdleThread]

----------------------------------------------------------------------------
(* The operations on the credential store *)

ReadProps == KEY_NAMES \cup {"openai_auth_type", "azure_endpoint"}

TotalReads == reads["openai_key"] + reads["azure_key"] + reads["openllm_key"]

\* The place of an issued key in its pool, counted from 0.
IndexOf(keys, key) == CHOOSE i \in 0..(Len(keys) - 1) : keys[i + 1] = key

\* value = credentials.<prop>
Read(prop) ==
    /\ prop \in KEY_NAMES => TotalReads < MaxReads
    /\ LET g == GetAttribute(cred, prop)
       IN  /\ cred' = g.self
           /\ ret' = g.ret
           /\ exc' = g.exc
           /\ issued' = IF prop \in KEY_NAMES /\ g.ret # None
                        THEN [prop |-> prop, idx |-> IndexOf(Split(cred[prop]), g.ret)]
                        ELSE issued
    /\ reads' = IF prop \in KEY_NAMES THEN [reads EXCEPT ![prop] = @ + 1] ELSE reads
    /\ op' = [name |-> "getattr", prop |-> prop]
    /\ UNCHANGED <<env, fs, dirs, loaded, saved_fresh, typeVars, threads>>

\* credentials.save()
Save ==
    /\ LET s == save(cred, fs, dirs)
           path == cred["credentials_path"]
       IN  /\ cred' = s.self
           /\ fs' = s.fs
           /\ dirs' = s.dirs
           /\ exc' = s.exc
           /\ saved_fresh' = IF s.exc # "" THEN saved_fresh
                             ELSE IF fs[path].kind = "absent"
                                  THEN saved_fresh \cup {path}
                                  ELSE saved_fresh \ {path}
    /\ op' = [name |-> "save", prop |-> ""]
    /\ ret' = None
    /\ UNCHANGED <<env, loaded, reads, issued, typeVars, threads>>

\* MemGPTCredentials.load()
Load ==
    /\ LET l == load(env, fs, dirs)
       IN  /\ loaded' = l.store
           /\ fs' = l.fs
           /\ dirs' = l.dirs
           /\ exc' = l.exc
    /\ op' = [name |-> "load", prop |-> ""]
    /\ ret' = None
    /\ UNCHANGED <<cred, env, reads, issued, saved_fresh, typeVars, threads>>

\* MemGPTCredentials.exists()
Exists ==
    /\ LET x == exists(env, fs)
       IN  /\ ret' = x.ret
           /\ exc' = x.exc
    /\ op' = [name |-> "exists", prop |-> ""]
    /\ UNCHANGED <<credVars, typeVars, threads>>

Next ==
    \/ \E prop \in ReadProps : Read(prop)
    \/ Save
    \/ Load
    \/ Exists

Spec == Init /\ [][Next]_vars

----------------------------------------------------------------------------
(* The record constructors of memgpt/data_types.py *)

UUID(text) == [type |-> "UUID", val |-> text]
Str(text) == [type |-> "str", val |-> text]

\* The builtin function id, what the name id means where no parameter has it.
BuiltinId == [type |-> "builtin_function_or_method", val |-> "id"]

\* Texts that are the canonical form of a UUID, and texts that are not.
UUIDTexts == {"123e4567-e89b-12d3-a456-426614174000",
              "00000000-0000-4000-8000-000000000001"}
OtherTexts == {"not-a-uuid", ""}

\* The texts of the UUIDs uuid.uuid4() draws, in the order it draws them.
Uuid4Texts ==
    <<"uuid4-1", "uuid4-2", "uuid4-3", "uuid4-4", "uuid4-5", "uuid4-6">>

\* uuid.uuid4() when n values were drawn before.
uuid4(n) == UUID(Uuid4Texts[n + 1])

\* isinstance(value, uuid.UUID)
IsUUID(value) == value.type = "UUID"

\* Record.__init__(self, id): the id attribute set, whether uuid4() was
\* called, and the exception raised.
RecordInit(id, n) ==
    LET self_id == IF id = PyNone THEN uuid4(n) ELSE id
    IN  [id |-> self_id,
         drew |-> id = PyNone,
         exc |-> IF IsUUID(self_id) THEN "" ELSE "AssertionError"]

\* Message(..., id=id): given says whether the caller passed id.
MessageInit(id, given, n) == RecordInit(IF given THEN id ELSE PyNone, n)

\* Passage(..., id=id)
PassageInit(id, given, n) == RecordInit(IF given THEN id ELSE PyNone, n)

\* Document(user_id, text, data_source, document_id): there is no id
\* parameter, and super().__init__(id) passes the builtin id.
DocumentInit(id, given, n) ==
    IF given THEN [id |-> PyNone, drew |-> FALSE, exc |-> "TypeError"]
    ELSE RecordInit(BuiltinId, n)

\* Source(..., id=id): Source has no base class but object, and
\* object.__init__ takes no argument.
SourceInit(id, given, n) == [id |-> PyNone, drew |-> FALSE, exc |-> "TypeError"]

Entities == {"Message", "Document", "Passage", "Source"}

EntityInit(cls, id, given, n) ==
    CASE cls = "Message" -> MessageInit(id, given, n)
      [] cls = "Document" -> DocumentInit(id, given, n)
      [] cls = "Passage" -> PassageInit(id, given, n)
      [] cls = "Source" -> SourceInit(id, given, n)

IdArguments ==
    {PyNone} \cup {UUID(t) : t \in UUIDTexts} \cup {Str(t) : t \in UUIDTexts \cup OtherTexts}

\* cls(..., id=id) or, when given is FALSE, cls(...)
Construct(cls, id, given) ==
    /\ Len(records) < MaxRecords
    /\ LET r == EntityInit(cls, id, given, uuid_next)
       IN  /\ exc' = r.exc
           /\ ret' = IF r.exc = "" THEN <<[cls |-> cls, id |-> r.id]>> ELSE <<>>
           /\ records' = IF r.exc = "" THEN Append(records, [cls |-> cls, id |-> r.id])
                         ELSE records
           /\ uuid_next' = IF r.drew THEN uuid_next + 1 ELSE uuid_next
    /\ op' = [name |-> "new", prop |-> cls]
    /\ args' = [id |-> IF given THEN id ELSE PyNone, given |-> given]
    /\ UNCHANGED <<credVars, threads>>

\* memgpt.constants.LLM_MAX_TOKENS
LLM_MAX_TOKENS ==
    ("DEFAULT" :> 8192) @@ ("gpt-4" :> 8192) @@ ("gpt-4-32k" :> 32768)
        @@ ("gpt-3.5-turbo" :> 4096) @@ ("gpt-3.5-turbo-16k" :> 16384)

\* LLMConfig(model=model, context_window=context_window): the attributes set
\* and the exception raised.  An argument is {} for None, {v} for a value.
LLMConfigInit(model, context_window) ==
    LET self == [model |-> model, model_endpoint_type |-> {}, model_endpoint |-> {},
                 model_wrapper |-> {}, context_window |-> context_window]
    IN  IF context_window = {}
        THEN IF "default_model" \notin DOMAIN self
             THEN [self |-> self, exc |-> "AttributeError"]
             ELSE [self |-> [self EXCEPT !["context_window"] =
                                {IF \A m \in self["default_model"] : m \in DOMAIN LLM_MAX_TOKENS
                                 THEN LLM_MAX_TOKENS[CHOOSE m \in self["default_model"] : TRUE]
                                 ELSE LLM_MAX_TOKENS["DEFAULT"]}],
                   exc |-> ""]
        ELSE [self |-> [self EXCEPT !["context_window"] = context_window], exc |-> ""]

ModelNames == {{}, {"gpt-4"}, {"gpt-3.5-turbo"}, {"unknown-model"}}
ContextWindows == {{}, {2048}, {8192}}

NewLLMConfig(model, context_window) ==
    /\ LET r == LLMConfigInit(model, context_window)
       IN  /\ exc' = r.exc
           /\ ret' = IF r.exc = "" THEN <<r.self>> ELSE <<>>
    /\ op' = [name |-> "new", prop |-> "LLMConfig"]
    /\ args' = [model |-> model, context_window |-> context_window]
    /\ UNCHANGED <<credVars, records, uuid_next, threads>>

TypesInit ==
    /\ cred = MemGPTCredentials
    /\ env = ""
    /\ dirs = {MEMGPT_DIR}
    /\ fs = [p \in Paths |-> Absent]
    /\ loaded = <<>>
    /\ reads = [f \in KEY_NAMES |-> 0]
    /\ issued = [prop |-> "", idx |-> 0]
    /\ saved_fresh = {}
    /\ InitTypes
    /\ op = NoOp
    /\ ret = None
    /\ exc = ""
    /\ threads = [t \in Threads |-> IdleThread]

TypesNext ==
    \/ \E cls \in Entities, id \in IdArguments : Construct(cls, id, TRUE)
    \/ \E cls \in Entities : Construct(cls, PyNone, FALSE)
    \/ \E model \in ModelNames, context_window \in ContextWindows :
          NewLLMConfig(model, context_window)

SpecTypes == TypesInit /\ [][TypesNext]_vars

----------------------------------------------------------------------------
(* __getattribute__ line by line, called by threads that share one store.  *)
(* A thread may be preempted between any two lines; nothing locks          *)
(* _key_num.                                                               *)

\* number = self._key_num
LineRead(self) == self["_key_num"]

\* number = number + 1 if number + 1 < len(keys) else 0
LineCompute(number, keys) == NextKeyNum(number, Len(keys))

\* A write of the counter that is lost.
LineWriteDropped(self, number) == self

\* self._key_num = number
LineWrite(self, number) == [self EXCEPT !["_key_num"] = number]

\* if len(keys): return keys[number]; return None
LineReturn(keys, number) == IF Len(keys) # 0 THEN keys[number + 1] ELSE None

\* Lines 28-33 of a call self.<prop>: the field is read, a None is returned
\* at once, anything else is split.
ThreadFetch(t, prop) ==
    /\ threads[t].pc = "idle"
    /\ threads' = [threads EXCEPT ![t] =
          IF cred[prop] = None
          THEN [@ EXCEPT !.pc = "done", !.prop = prop, !.ret = None]
          ELSE [@ EXCEPT !.pc = "line35", !.prop = prop, !.keys = Split(cred[prop])]]
    /\ UNCHANGED <<credVars, typeVars, op, ret, exc>>

\* Line 35
ThreadRead(t) ==
    /\ threads[t].pc = "line35"
    /\ threads' = [threads EXCEPT ![t] =
          [@ EXCEPT !.pc = "line36", !.number = LineRead(cred), !.seen = LineRead(cred)]]
    /\ UNCHANGED <<credVars, typeVars, op, ret, exc>>

\* Line 36
ThreadCompute(t) ==
    /\ threads[t].pc = "line36"
    /\ threads' = [threads EXCEPT ![t] =
          [@ EXCEPT !.pc = "line37", !.number = LineCompute(@, threads[t].keys)]]
    /\ UNCHANGED <<credVars, typeVars, op, ret, exc>>

\* Line 37.  A thread that has read the counter and not yet written it now
\* holds a stale number.
ThreadWrite(t) ==
    /\ threads[t].pc = "line37"
    /\ cred' = LineWrite(cred, threads[t].number)
    /\ threads' = [u \in Threads |->
          IF u = t THEN [threads[u] EXCEPT !.pc = "line39"]
          ELSE IF threads[u].pc \in {"line36", "line37"}
               THEN [threads[u] EXCEPT !.stale = TRUE]
               ELSE threads[u]]
    /\ UNCHANGED <<env, fs, dirs, loaded, reads, issued, saved_fresh, typeVars,
                   op, ret, exc>>

\* Lines 39-41
ThreadReturn(t) ==
    /\ threads[t].pc = "line39"
    /\ threads' = [threads EXCEPT ![t] =
          [@ EXCEPT !.pc = "done", !.ret = LineReturn(threads[t].keys, threads[t].number)]]
    /\ UNCHANGED <<credVars, typeVars, op, ret, exc>>

\* The counter values a store can have when the threads start: 0, or what
\* earlier reads of one of its pools left.
StartNumbers(store) ==
    {k \in 0..(MaxKeys - 1) :
        k = 0 \/ \E f \in KEY_NAMES : store[f] # None /\ k < Len(Split(store[f]))}

ThreadsInit ==
    /\ \E store \in RotationStores, k \in 0..(MaxKeys - 1) :
          /\ k \in StartNumbers(store)
          /\ cred = [store EXCEPT !["_key_num"] = k]
    /\ env = ""
    /\ dirs = {MEMGPT_DIR}
    /\ fs = [p \in Paths |-> Absent]
    /\ loaded = <<>>
    /\ reads = [f \in KEY_NAMES |-> 0]
    /\ issued = [prop |-> "", idx |-> 0]
    /\ saved_fresh = {}
    /\ InitTypes
    /\ op = NoOp
    /\ ret = None
    /\ exc = ""
    /\ threads = [t \in Threads |-> IdleThread]

ThreadsNext ==
    \E t \in Threads :
        \/ \E prop \in KEY_NAMES : ThreadFetch(t, prop)
        \/ ThreadRead(t)
        \/ ThreadCompute(t)
        \/ ThreadWrite(t)
        \/ ThreadReturn(t)

SpecThreads == ThreadsInit /\ [][ThreadsNext]_vars

----------------------------------------------------------------------------
(* Properties of the credential store *)

KeyRead == op.name = "getattr" /\ op.prop \in KEY_NAMES

OnlyRead(f) == \A g \in KEY_NAMES \ {f} : reads[g] = 0

\* The value a file holds under section/key as written, None when absent.
RawEntry(file, section, key) ==
    IF file.kind = "file" /\ section \in DOMAIN file.config
       /\ key \in DOMAIN file.config[section]
    THEN file.config[section][key]
    ELSE None

\* C1: with the counter starting at 0 and only one key field read, the k-th
\* read of that field returns keys[k mod n] of its comma-separated pool.
C1_RoundRobin ==
    \A f \in KEY_NAMES :
        (KeyRead /\ op.prop = f /\ cred[f] # None /\ OnlyRead(f))
            => LET keys == Split(cred[f])
               IN  ret = keys[(reads[f] % Len(keys)) + 1]

\* The third read of the pool A,B,C wraps around to A.
C1_Witness ==
    /\ KeyRead /\ op.prop = "openai_key" /\ OnlyRead("openai_key")
    /\ cred["openai_key"] = <<"A", ",", "B", ",", "C">>
    /\ reads["openai_key"] = 3
    /\ ret = <<"A">>

\* C2: a read of a key field that is None returns None and raises nothing,
\* whatever was read before.
C2_NoneKey ==
    \A f \in KEY_NAMES :
        (KeyRead /\ op.prop = f /\ cred[f] = None) => (ret = None /\ exc = "")

\* A None key field read after reads of another field moved the counter.
C2_Witness ==
    /\ KeyRead /\ op.prop = "openai_key" /\ cred["openai_key"] = None
    /\ reads["azure_key"] >= 2 /\ cred["_key_num"] > 0
    /\ ret = None

\* C3: save() leaves the store, its rotation counter included, as it was, and
\* the file it writes holds each key field's whole raw string.
C3_SaveRaw ==
    [][op'.name = "save" =>
          /\ cred' = cred
          /\ exc' = "" =>
                LET file == fs'[cred["credentials_path"]]
                IN  /\ RawEntry(file, "openai", "key") = cred["openai_key"]
                    /\ RawEntry(file, "azure", "key") = cred["azure_key"]
                    /\ RawEntry(file, "openllm", "key") = cred["openllm_key"]]_vars

\* A save() of a three-key pool in mid-rotation.
C3_Witness ==
    /\ op.name = "save" /\ exc = ""
    /\ cred["_key_num"] = 2
    /\ cred["azure_key"] = <<"F", ",", "G", ",", "H">>
    /\ RawEntry(fs[cred["credentials_path"]], "azure", "key") = <<"F", ",", "G", ",", "H">>

\* load() returned a store read from the file that save() of cred created.
RoundTrip ==
    /\ op.name = "load" /\ exc = ""
    /\ ResolvePath(env) \in saved_fresh
    /\ cred["credentials_path"] = ResolvePath(env)

\* C4 as stated: after save() to a path with no file and load() from it, the
\* loaded store equals the saved one on every non-null field and has no
\* non-null field that was null in the saved one.
C4_RoundTripNonNull ==
    RoundTrip =>
        \A f \in PersistedFields :
            /\ cred[f] # None => loaded[1][f] = cred[f]
            /\ cred[f] = None => loaded[1][f] = None

\* C4 amended: the loaded store equals the saved one on every field that was
\* neither null nor the empty string; every other field has its class default
\* (null, but bearer_token / api_key for the openai / azure auth types).
C4_RoundTrip ==
    RoundTrip =>
        \A f \in PersistedFields :
            loaded[1][f] = IF cred[f] \notin {None, <<>>} THEN cred[f]
                           ELSE MemGPTCredentials[f]

\* A round trip of a store with every field set.
C4_Witness ==
    /\ RoundTrip
    /\ cred["azure_embedding_version"] = <<"v", "2">>
    /\ loaded[1]["azure_embedding_version"] = <<"v", "2">>
    /\ loaded[1]["openai_key"] = <<"A", ",", "B">>

\* The file load() writes for a store of defaults.
DefaultFile ==
    File([openai |-> [auth_type |-> BearerToken], azure |-> [auth_type |-> ApiKey]])

\* C5 as stated: no call of exists() or load() changes the credentials file,
\* whether it was present or absent.
C5_NeverMutates ==
    [][op'.name \in {"load", "exists"} =>
          fs'[ResolvePath(env)] = fs[ResolvePath(env)]]_vars

\* C5 amended: exists() never changes the file system; load() changes it only
\* when there is nothing at the resolved path, and then only by creating the
\* file of defaults there, so a second call finds the file and leaves it alone.
C5_Idempotent ==
    [][op'.name \in {"load", "exists"} =>
          \/ fs' = fs
          \/ /\ op'.name = "load"
             /\ fs[ResolvePath(env)].kind = "absent"
             /\ fs' = [fs EXCEPT ![ResolvePath(env)] = DefaultFile]]_vars

\* load() on a hand-written file, which is still as it was written.
C5_Witness ==
    /\ op.name = "load" /\ exc = ""
    /\ fs[ResolvePath(env)] = File(SampleConfig)
    /\ loaded[1]["openai_key"] = <<"A", ",", "B">>

\* C6: a load() that finds nothing at the resolved path and returns has built
\* the store of defaults bound to that path and written its file, so that the
\* file is there and exists() returns true.
C6_LoadMaterializes ==
    [][(op'.name = "load" /\ exc' = "" /\ fs[ResolvePath(env)].kind = "absent") =>
          /\ loaded' = <<[MemGPTCredentials EXCEPT !["credentials_path"] = ResolvePath(env)]>>
          /\ fs'[ResolvePath(env)].kind = "file"
          /\ exists(env', fs') = [ret |-> TRUE, exc |-> ""]]_vars

\* load() under the environment override created the file of defaults.
C6_Witness ==
    /\ op.name = "load" /\ exc = ""
    /\ env = OtherPath
    /\ fs[OtherPath] = DefaultFile
    /\ loaded[1]["credentials_path"] = OtherPath

\* C10: the three key fields share one counter: the index a key read issues
\* is the successor, within the pool read, of the index the last key read
\* issued, whichever field that was.
C10_SharedCounter ==
    [][(op'.name = "getattr" /\ op'.prop \in KEY_NAMES /\ reads' # reads
            /\ cred[op'.prop] # None) =>
          issued'.idx = NextKeyNum(issued.idx, Len(Split(cred[op'.prop])))]_vars

\* The first read of openai_key issues C, not B, because one read of
\* azure_key came before it.
C10_Witness ==
    /\ KeyRead /\ op.prop = "openai_key"
    /\ reads = [openai_key |-> 1, azure_key |-> 1, openllm_key |-> 0]
    /\ cred["openai_key"] = <<"A", ",", "B", ",", "C">>
    /\ issued = [prop |-> "openai_key", idx |-> 2]
    /\ ret = <<"C">>

\* The keys of the pool of key field f, none when the field is None.
PoolKeys(f) ==
    IF cred[f] = None THEN {}
    ELSE {Split(cred[f])[i] : i \in 1..Len(Split(cred[f]))}

\* C12: whatever key fields were read before, over pools of different sizes
\* sharing the one counter, a read of a key field that is not None raises
\* nothing, leaves the counter at an index 0..n-1 of that field's own pool of
\* n >= 1 keys, and returns the key at that index, which is a key of no other
\* field.
C12_IndexInRange ==
    \A f \in KEY_NAMES :
        (KeyRead /\ op.prop = f /\ cred[f] # None) =>
            LET keys == Split(cred[f])
            IN  /\ Len(keys) >= 1
                /\ exc = ""
                /\ cred["_key_num"] \in 0..(Len(keys) - 1)
                /\ ret = keys[cred["_key_num"] + 1]
                /\ \A g \in KEY_NAMES \ {f} : ret \notin PoolKeys(g)

\* A read of the one-key pool of openai_key after two reads of the three-key
\* pool of azure_key left the counter at 2: the counter wraps to 0.
C12_Witness ==
    /\ KeyRead /\ op.prop = "openai_key"
    /\ cred["openai_key"] = <<"A">>
    /\ cred["azure_key"] = <<"F", ",", "G", ",", "H">>
    /\ reads = [openai_key |-> 1, azure_key |-> 2, openllm_key |-> 0]
    /\ cred["_key_num"] = 0
    /\ ret = <<"A">>

----------------------------------------------------------------------------
(* Properties of the record constructors *)

NewEntity == op.name = "new" /\ op.prop \in Entities

\* C7: for each of Message, Document, Passage and Source, construction with
\* id=u for a valid UUID u returns a record whose id is u, and construction
\* with a string that is no UUID raises and returns no record.
C7_ExplicitId ==
    (NewEntity /\ args.given /\ args.id # PyNone) =>
        IF args.id.val \in UUIDTexts
        THEN exc = "" /\ Len(ret) = 1 /\ ret[1].id.val = args.id.val
        ELSE exc # "" /\ ret = <<>>

\* C8: for each of Message, Document, Passage and Source, construction
\* without an id succeeds with a UUID that no record built before has.
C8_FreshId ==
    (NewEntity /\ ~args.given) =>
        /\ exc = "" /\ Len(ret) = 1 /\ IsUUID(ret[1].id)
        /\ records[Len(records)] = ret[1]
        /\ \A i \in 1..(Len(records) - 1) : records[i].id # ret[1].id

\* C9: LLMConfig built with context_window=None takes its context window
\* from LLM_MAX_TOKENS, the entry of the model name or else the DEFAULT
\* entry; a context window that is supplied is kept.
C9_ContextWindow ==
    (op.name = "new" /\ op.prop = "LLMConfig") =>
        /\ exc = "" /\ Len(ret) = 1
        /\ ret[1].context_window =
              IF args.context_window # {} THEN args.context_window
              ELSE IF \E m \in args.model : m \in DOMAIN LLM_MAX_TOKENS
                   THEN {LLM_MAX_TOKENS[m] : m \in args.model}
                   ELSE {LLM_MAX_TOKENS["DEFAULT"]}

----------------------------------------------------------------------------
(* Properties of concurrent key reads *)

\* Threads t and u have both returned from a read of the same key field,
\* whose pool has at least two keys.
BothRead(t, u) ==
    /\ t # u
    /\ threads[t].pc = "done" /\ threads[u].pc = "done"
    /\ threads[t].prop = threads[u].prop
    /\ cred[threads[t].prop] # None
    /\ Len(threads[t].keys) >= 2

\* C11: key issuance reads, computes and writes back _key_num without a
\* lock.  Two threads that read the same key field are issued the same key,
\* with the counter advanced by one step instead of two, exactly when one of
\* them read the counter before the other wrote it; otherwise they are
\* issued successive keys.
C11_LostUpdate ==
    \A t, u \in Threads :
        BothRead(t, u) =>
            LET n == Len(threads[t].keys)
            IN  IF threads[t].stale \/ threads[u].stale
                THEN /\ threads[t].ret = threads[u].ret
                     /\ threads[t].seen = threads[u].seen
                     /\ cred["_key_num"] = NextKeyNum(threads[t].seen, n)
                ELSE /\ threads[t].ret # threads[u].ret
                     /\ \/ /\ threads[u].seen = NextKeyNum(threads[t].seen, n)
                           /\ cred["_key_num"] = NextKeyNum(threads[u].seen, n)
                        \/ /\ threads[t].seen = NextKeyNum(threads[u].seen, n)
                           /\ cred["_key_num"] = NextKeyNum(threads[t].seen, n)

\* Both threads read openai_key of the pool A,B,C from counter 0 and both
\* are issued B; the counter is 1, not 2.
C11_Witness ==
    /\ BothRead("T1", "T2")
    /\ threads["T1"].prop = "openai_key"
    /\ cred["openai_key"] = <<"A", ",", "B", ",", "C">>
    /\ threads["T1"].seen = 0 /\ threads["T2"].seen = 0
    /\ threads["T1"].ret = <<"B">> /\ threads["T2"].ret = <<"B">>
    /\ cred["_key_num"] = 1

====
